---- MODULE Spec2Model ----
(***************************************************************************)
(* wagtail-seo: the SEO properties of SeoMixin (models.py), the Twitter    *)
(* handle of SeoSettings (models.py) and the OpenHours value (blocks.py).  *)
(*                                                                         *)
(* Text is modelled as a sequence of one-character strings, so that        *)
(* str.lstrip, str.format and json.dumps are computed character by         *)
(* character.  A Python value is a record [kind, s]:                       *)
(*   kind = "str"    a str whose characters are s                          *)
(*   kind = "none"   None                                                  *)
(*   kind = "image"  an AbstractImage whose file is named s                *)
(*   kind = "raise"  an exception that left the property                   *)
(***************************************************************************)
EXTENDS Integers, Sequences, FiniteSets, TLC

VARIABLES
    attrs,                      \* the page's fields reachable by getattr
    title,                      \* wagtail Page.title
    site_name,                  \* page.get_site().site_name
    media_base_url,             \* utils.get_absolute_media_url(page.get_site())
    full_url,                   \* page.get_full_url()
    seo_pagetitle_sources,      \* class attribute, models.py:179
    seo_description_sources,    \* class attribute, models.py:167
    seo_image_sources,          \* class attribute, models.py:173
    twitter_site,               \* SeoSettings.twitter_site
    struct_org_type,
    struct_org_name,
    struct_org_phone,
    struct_org_geo_lat,
    struct_org_geo_lng,
    struct_org_extra_json,
    hours,                      \* one OpenHoursValue: days, start_time, end_time
    result,                     \* the last property read: [op, val]
    struct_data,                \* the last assembled structured-data mapping
    hours_data                  \* the last assembled opening-hours entry

pageVars == <<attrs, title, site_name, media_base_url, full_url>>
sourceVars == <<seo_pagetitle_sources, seo_description_sources, seo_image_sources>>
settingsVars == <<twitter_site>>
structVars == <<struct_org_type, struct_org_name, struct_org_phone,
                struct_org_geo_lat, struct_org_geo_lng, struct_org_extra_json>>
hoursVars == <<hours>>
outVars == <<result, struct_data, hours_data>>
vars == <<pageVars, sourceVars, settingsVars, structVars, hoursVars, outVars>>

----------------------------------------------------------------------------
\* Bounds of the model.

\* longest candidate list a page class declares
MaxSources == 2
\* longest stored Twitter handle (the field allows TwitterMaxLength)
MaxHandleLen == 5
\* most days selected in one OpenHours entry
MaxDays == 2
\* most members of the extra-JSON object
MaxExtra == 2

\* max_length of SeoSettings.twitter_site
TwitterMaxLength == 16

----------------------------------------------------------------------------
\* Python values.

StrV(s) == [kind |-> "str", s |-> s]
NoneV == [kind |-> "none", s |-> <<>>]
ImageV(f) == [kind |-> "image", s |-> f]
AttributeError == [kind |-> "raise", s |-> <<>>]

\* bool(v): a str is truthy when non-empty, None is falsy, a model instance
\* (an image) is truthy.
Truthy(v) ==
    CASE v.kind = "str" -> v.s # <<>>
      [] v.kind = "image" -> TRUE
      [] OTHER -> FALSE

\* isinstance(v, AbstractImage)
IsImage(v) == v.kind = "image"

SeqsUpTo(S, n) == UNION {[1..k -> S] : k \in 0..n}

----------------------------------------------------------------------------
\* The values the fields range over.

AttrNames == {"seo_title", "search_description", "og_image", "struct_org_image"}
\* a name no field or attribute of the page class carries
MissingAttr == "missing"
SourceNames == AttrNames \cup {MissingAttr}
SourceLists == SeqsUpTo(SourceNames, MaxSources)

Titles == {<<"T">>, <<"U">>}
SiteNames == {<<>>, <<"N">>}
\* the last one spells "T - N", the fallback of title "T" on site "N"
SeoTitles == {<<>>, <<"S">>, <<"T", " ", "-", " ", "N">>}
Descriptions == {<<>>, <<"D">>}
OgImages == {NoneV, ImageV(<<"a">>)}
OrgImages == {NoneV, ImageV(<<"b">>)}
MediaBaseUrls == {<<>>, <<"h">>}

AttrValues(a) ==
    CASE a = "seo_title" -> {StrV(s) : s \in SeoTitles}
      [] a = "search_description" -> {StrV(s) : s \in Descriptions}
      [] a = "og_image" -> OgImages
      [] a = "struct_org_image" -> OrgImages

DefaultDescriptionSources == <<"search_description">>
DefaultImageSources == <<"og_image">>
DefaultPagetitleSources == <<"seo_title">>

NoResult == [op |-> "none", val |-> NoneV]

----------------------------------------------------------------------------
\* SeoMixin: the properties.

HasAttr(a) == a \in DOMAIN attrs

\* getattr(self, a): raises AttributeError for a name the page lacks
GetAttr(a) == IF HasAttr(a) THEN attrs[a] ELSE AttributeError

\* "{0} - {1}".format(a, b)
FormatTitle(a, b) == a \o <<" ", "-", " ">> \o b

\* "{0}?amp".format(a)
FormatAmp(a) == a \o <<"?", "a", "m", "p">>

\* image.get_rendition(spec).url: the host's URL of a rendition of the file
RenditionUrl(image, spec) == <<"/">> \o image.s \o <<".">> \o spec

\* the loop of seo_description and of seo_pagetitle: the first candidate the
\* page has whose value is truthy, from position i on
RECURSIVE FirstText(_, _)
FirstTextLast(sources, i) ==
    IF i > Len(sources) THEN [found |-> FALSE, val |-> NoneV]
    ELSE LET rest == FirstText(sources, i + 1)
         IN  IF rest.found THEN rest
             ELSE IF HasAttr(sources[i]) /\ Truthy(GetAttr(sources[i]))
                  THEN [found |-> TRUE, val |-> GetAttr(sources[i])]
                  ELSE rest
FirstText(sources, i) ==
    IF i > Len(sources) THEN [found |-> FALSE, val |-> NoneV]
    ELSE IF HasAttr(sources[i]) /\ Truthy(GetAttr(sources[i]))
         THEN [found |-> TRUE, val |-> GetAttr(sources[i])]
         ELSE FirstText(sources, i + 1)

\* the loop of seo_image_url: the first candidate the page has that is an image
RECURSIVE FirstImage(_, _)
FirstImageLast(sources, i) ==
    IF i > Len(sources) THEN [found |-> FALSE, val |-> NoneV]
    ELSE LET rest == FirstImage(sources, i + 1)
         IN  IF rest.found THEN rest
             ELSE IF HasAttr(sources[i]) /\ IsImage(GetAttr(sources[i]))
                  THEN [found |-> TRUE, val |-> GetAttr(sources[i])]
                  ELSE rest
FirstImage(sources, i) ==
    IF i > Len(sources) THEN [found |-> FALSE, val |-> NoneV]
    ELSE IF HasAttr(sources[i]) /\ IsImage(GetAttr(sources[i]))
         THEN [found |-> TRUE, val |-> GetAttr(sources[i])]
         ELSE FirstImage(sources, i + 1)

seo_canonical_url == StrV(full_url)

seo_amp_url == StrV(FormatAmp(seo_canonical_url.s))

seo_description_none ==
    LET r == FirstText(seo_description_sources, 1)
    IN  IF r.found THEN r.val ELSE NoneV
seo_description ==
    LET r == FirstText(seo_description_sources, 1)
    IN  IF r.found THEN r.val ELSE StrV(<<>>)

seo_image_url ==
    LET base_url == media_base_url
        r == FirstImage(seo_image_sources, 1)
    IN  IF r.found THEN StrV(base_url \o RenditionUrl(r.val, <<"original">>))
        ELSE StrV(<<>>)

seo_og_type == StrV(<<"website">>)

seo_sitename == StrV(site_name)

seo_pagetitle_swapped ==
    LET r == FirstText(seo_pagetitle_sources, 1)
    IN  IF r.found THEN r.val
        ELSE StrV(FormatTitle(seo_sitename.s, title))
seo_pagetitle ==
    LET r == FirstText(seo_pagetitle_sources, 1)
    IN  IF r.found THEN r.val
        ELSE StrV(FormatTitle(title, seo_sitename.s))

seo_twitter_card == StrV(<<"summary">>)

----------------------------------------------------------------------------
\* SeoSettings: the Twitter handle.

HandleChars == {"@", "f"}
Handles == {h \in SeqsUpTo(HandleChars, MaxHandleLen) : Len(h) <= TwitterMaxLength}

\* s.lstrip(ch): s without its leading run of ch
RECURSIVE Lstrip(_, _)
LstripNothing(s, ch) == s
LstripOnce(s, ch) == IF s # <<>> /\ Head(s) = ch THEN Tail(s) ELSE s
Lstrip(s, ch) == IF s # <<>> /\ Head(s) = ch THEN Lstrip(Tail(s), ch) ELSE s

\* "@{0}".format(handle)
FormatAt(handle) == <<"@">> \o handle

at_twitter_site ==
    LET handle == Lstrip(twitter_site, "@")
    IN  StrV(FormatAt(handle))

----------------------------------------------------------------------------
\* OpenHoursValue and OpenHoursBlock.

\* the choices of OpenHoursBlock.days, in their order
DayChoices == <<"Monday", "Tuesday", "Wednesday", "Thursday", "Friday",
                "Saturday", "Sunday">>
Days == {DayChoices[i] : i \in 1..Len(DayChoices)}

\* the characters of a day name
DayChars(d) ==
    CASE d = "Monday" -> <<"M", "o", "n", "d", "a", "y">>
      [] d = "Tuesday" -> <<"T", "u", "e", "s", "d", "a", "y">>
      [] d = "Wednesday" -> <<"W", "e", "d", "n", "e", "s", "d", "a", "y">>
      [] d = "Thursday" -> <<"T", "h", "u", "r", "s", "d", "a", "y">>
      [] d = "Friday" -> <<"F", "r", "i", "d", "a", "y">>
      [] d = "Saturday" -> <<"S", "a", "t", "u", "r", "d", "a", "y">>
      [] d = "Sunday" -> <<"S", "u", "n", "d", "a", "y">>

Times == {"09:00", "17:00"}
OpenHoursValues ==
    [days : SeqsUpTo(Days, MaxDays), start_time : Times, end_time : Times]

\* json.dumps of a str without characters to escape
JsonDumpsStr(s) == <<"\"">> \o s \o <<"\"">>

\* json.dumps of a list of day names: the items joined by ", " in brackets
RECURSIVE JsonDumpsItems(_, _)
JsonDumpsItems(items, i) ==
    IF i > Len(items) THEN <<>>
    ELSE JsonDumpsStr(DayChars(items[i]))
         \o (IF i < Len(items) THEN <<",", " ">> ELSE <<>>)
         \o JsonDumpsItems(items, i + 1)
JsonDumpsList(items) == <<"[">> \o JsonDumpsItems(items, 1) \o <<"]">>

days_json_first ==
    StrV(JsonDumpsList(IF hours.days = <<>> THEN <<>> ELSE <<Head(hours.days)>>))
days_json == StrV(JsonDumpsList(hours.days))

NoHours == [op |-> "none", days |-> <<>>, opens |-> "", closes |-> ""]

\* the entry the hours template renders: the days with the time range
OpenHoursEntry ==
    [op |-> "hours", days |-> days_json.s,
     opens |-> hours.start_time, closes |-> hours.end_time]

----------------------------------------------------------------------------
\* The structured-data mapping of the organization.

Keys == {"@type", "name", "telephone", "geo", "foo"}
Absent == <<>>
OrgTypes == {"Organization", "LocalBusiness"}
OrgNames == {<<>>, <<"O">>}
Phones == {<<>>, <<"5">>}
NoCoordinate == "None"
Coordinates == {"41.5", "-81.7"}
ExtraKeys == {"foo", "geo", "name"}
ExtraValues == {<<"bar">>, <<"baz">>}
ExtraMembers == [key : ExtraKeys, value : ExtraValues]
\* the text of the extra-JSON field: its members in order when it parses
ExtraJsonTexts ==
    {[ok |-> TRUE, members |-> m] : m \in SeqsUpTo(ExtraMembers, MaxExtra)}
    \cup {[ok |-> FALSE, members |-> <<>>]}

NoStruct == [op |-> "none", map |-> [k \in Keys |-> Absent]]

GeoMappingEither ==
    IF struct_org_geo_lat # NoCoordinate \/ struct_org_geo_lng # NoCoordinate
    THEN <<"GeoCoordinates", struct_org_geo_lat, struct_org_geo_lng>>
    ELSE Absent
GeoMapping ==
    IF struct_org_geo_lat # NoCoordinate /\ struct_org_geo_lng # NoCoordinate
    THEN <<"GeoCoordinates", struct_org_geo_lat, struct_org_geo_lng>>
    ELSE Absent

BaseMapping ==
    [k \in Keys |->
        CASE k = "@type" -> <<struct_org_type>>
          [] k = "name" -> IF struct_org_name # <<>> THEN struct_org_name
                           ELSE site_name
          [] k = "telephone" -> struct_org_phone
          [] k = "geo" -> GeoMapping
          [] OTHER -> Absent]

\* the members merged into m in order: a later member replaces an earlier key
RECURSIVE MergeMembers(_, _, _)
MergeMembers(m, members, i) ==
    IF i > Len(members) THEN m
    ELSE MergeMembers([m EXCEPT ![members[i].key] = members[i].value],
                      members, i + 1)

\* the members merged first-wins: a key the mapping already has is kept
RECURSIVE MergeMembersKeep(_, _, _)
MergeMembersKeep(m, members, i) ==
    IF i > Len(members) THEN m
    ELSE LET k == members[i].key
         IN  MergeMembersKeep(
                 IF m[k] # Absent THEN m ELSE [m EXCEPT ![k] = members[i].value],
                 members, i + 1)

StructuredDataBaseWins ==
    IF struct_org_extra_json.ok
    THEN MergeMembersKeep(BaseMapping, struct_org_extra_json.members, 1)
    ELSE BaseMapping
StructuredData ==
    IF struct_org_extra_json.ok
    THEN MergeMembers(BaseMapping, struct_org_extra_json.members, 1)
    ELSE BaseMapping

----------------------------------------------------------------------------
\* Edits by authors and administrators.  An edit makes the outputs of the
\* record as it was stale: they are cleared.

Cleared == result' = NoResult /\ struct_data' = NoStruct /\ hours_data' = NoHours

SetAttr ==
    \E a \in AttrNames : \E v \in AttrValues(a) :
        /\ attrs' = [attrs EXCEPT ![a] = v]
        /\ Cleared
        /\ UNCHANGED <<title, site_name, media_base_url, full_url, sourceVars,
                       settingsVars, structVars, hoursVars>>

SetTitle ==
    \E t \in Titles :
        /\ title' = t
        /\ Cleared
        /\ UNCHANGED <<attrs, site_name, media_base_url, full_url, sourceVars,
                       settingsVars, structVars, hoursVars>>

SetSiteName ==
    \E n \in SiteNames :
        /\ site_name' = n
        /\ Cleared
        /\ UNCHANGED <<attrs, title, media_base_url, full_url, sourceVars,
                       settingsVars, structVars, hoursVars>>

SetMediaBaseUrl ==
    \E u \in MediaBaseUrls :
        /\ media_base_url' = u
        /\ Cleared
        /\ UNCHANGED <<attrs, title, site_name, full_url, sourceVars,
                       settingsVars, structVars, hoursVars>>

SetTwitterSite ==
    \E h \in Handles :
        /\ twitter_site' = h
        /\ Cleared
        /\ UNCHANGED <<pageVars, sourceVars, structVars, hoursVars>>

SetOrganization ==
    \E t \in OrgTypes : \E n \in OrgNames : \E p \in Phones :
        /\ struct_org_type' = t
        /\ struct_org_name' = n
        /\ struct_org_phone' = p
        /\ Cleared
        /\ UNCHANGED <<pageVars, sourceVars, settingsVars, hoursVars,
                       struct_org_geo_lat, struct_org_geo_lng,
                       struct_org_extra_json>>

SetGeo ==
    \E lat \in Coordinates \cup {NoCoordinate} :
    \E lng \in Coordinates \cup {NoCoordinate} :
        /\ struct_org_geo_lat' = lat
        /\ struct_org_geo_lng' = lng
        /\ Cleared
        /\ UNCHANGED <<pageVars, sourceVars, settingsVars, hoursVars,
                       struct_org_type, struct_org_name, struct_org_phone,
                       struct_org_extra_json>>

SetExtraJson ==
    \E text \in ExtraJsonTexts :
        /\ struct_org_extra_json' = text
        /\ Cleared
        /\ UNCHANGED <<pageVars, sourceVars, settingsVars, hoursVars,
                       struct_org_type, struct_org_name, struct_org_phone,
                       struct_org_geo_lat, struct_org_geo_lng>>

SetHours ==
    \E v \in OpenHoursValues :
        /\ hours' = v
        /\ Cleared
        /\ UNCHANGED <<pageVars, sourceVars, settingsVars, structVars>>

----------------------------------------------------------------------------
\* Reads: a template evaluates one property.

Stored == <<pageVars, sourceVars, settingsVars, structVars, hoursVars>>

Read(op, val) ==
    /\ result' = [op |-> op, val |-> val]
    /\ UNCHANGED <<Stored, struct_data, hours_data>>

EvalSeoAmpUrl == Read("seo_amp_url", seo_amp_url)

EvalSeoCanonicalUrl == Read("seo_canonical_url", seo_canonical_url)

EvalSeoDescription == Read("seo_description", seo_description)

EvalSeoImageUrl == Read("seo_image_url", seo_image_url)

EvalSeoOgType == Read("seo_og_type", seo_og_type)

EvalSeoSitename == Read("seo_sitename", seo_sitename)

EvalSeoPagetitleCaching ==
    /\ result' = [op |-> "seo_pagetitle", val |-> seo_pagetitle]
    /\ attrs' = [attrs EXCEPT !["seo_title"] = seo_pagetitle]
    /\ UNCHANGED <<title, site_name, media_base_url, full_url, sourceVars,
                   settingsVars, structVars, hoursVars, struct_data, hours_data>>
EvalSeoPagetitle == Read("seo_pagetitle", seo_pagetitle)

EvalSeoTwitterCard == Read("seo_twitter_card", seo_twitter_card)

EvalAtTwitterSite == Read("at_twitter_site", at_twitter_site)

EvalDaysJson == Read("days_json", days_json)

RenderOpenHours ==
    /\ hours_data' = OpenHoursEntry
    /\ UNCHANGED <<Stored, result, struct_data>>

AssembleStructuredData ==
    /\ struct_data' = [op |-> "struct", map |-> StructuredData]
    /\ UNCHANGED <<Stored, result, hours_data>>

----------------------------------------------------------------------------
\* Initial states.

NewPage ==
    /\ attrs = [a \in AttrNames |->
                   IF a \in {"og_image", "struct_org_image"} THEN NoneV
                   ELSE StrV(<<>>)]
    /\ title = <<"T">>
    /\ site_name = <<"N">>
    /\ media_base_url = <<"h">>
    /\ full_url = <<"h", "/">>

ShippedSources ==
    /\ seo_pagetitle_sources = DefaultPagetitleSources
    /\ seo_description_sources = DefaultDescriptionSources
    /\ seo_image_sources = DefaultImageSources

\* a page class that overrides one of the three candidate lists
OverriddenSources ==
    \E list \in SourceLists :
        \/ /\ seo_pagetitle_sources = list
           /\ seo_description_sources = DefaultDescriptionSources
           /\ seo_image_sources = DefaultImageSources
        \/ /\ seo_pagetitle_sources = DefaultPagetitleSources
           /\ seo_description_sources = list
           /\ seo_image_sources = DefaultImageSources
        \/ /\ seo_pagetitle_sources = DefaultPagetitleSources
           /\ seo_description_sources = DefaultDescriptionSources
           /\ seo_image_sources = list

NewSettings == twitter_site = <<>>

NewOrganization ==
    /\ struct_org_type = "Organization"
    /\ struct_org_name = <<>>
    /\ struct_org_phone = <<>>
    /\ struct_org_geo_lat = NoCoordinate
    /\ struct_org_geo_lng = NoCoordinate
    /\ struct_org_extra_json = [ok |-> TRUE, members |-> <<>>]

NewHours == hours = [days |-> <<>>, start_time |-> "09:00", end_time |-> "17:00"]

NoOutputs == result = NoResult /\ struct_data = NoStruct /\ hours_data = NoHours

\* the page and the settings as shipped: authors edit the page's fields,
\* administrators the settings, and every property may be read
Init ==
    NewPage /\ ShippedSources /\ NewSettings /\ NewOrganization /\ NewHours
    /\ NoOutputs

Next ==
    \/ SetAttr \/ SetTitle \/ SetTwitterSite
    \/ EvalSeoAmpUrl \/ EvalSeoCanonicalUrl \/ EvalSeoDescription
    \/ EvalSeoImageUrl \/ EvalSeoOgType \/ EvalSeoSitename \/ EvalSeoPagetitle
    \/ EvalSeoTwitterCard \/ EvalAtTwitterSite

Spec == Init /\ [][Next]_vars

\* page classes with their own candidate lists
InitPage ==
    NewPage /\ OverriddenSources /\ NewSettings /\ NewOrganization /\ NewHours
    /\ NoOutputs

NextPage ==
    \/ SetAttr \/ SetTitle \/ SetSiteName \/ SetMediaBaseUrl
    \/ EvalSeoDescription \/ EvalSeoImageUrl \/ EvalSeoSitename
    \/ EvalSeoPagetitle

SpecPage == InitPage /\ [][NextPage]_vars

\* the settings record alone
NextTwitter == SetTwitterSite \/ EvalAtTwitterSite

SpecTwitter == Init /\ [][NextTwitter]_vars

\* the organization fields and the assembled mapping
NextStruct == SetOrganization \/ SetGeo \/ SetExtraJson \/ AssembleStructuredData

SpecStruct == Init /\ [][NextStruct]_vars

\* one opening-hours entry
NextHours == SetHours \/ EvalDaysJson \/ RenderOpenHours

SpecHours == Init /\ [][NextHours]_vars

----------------------------------------------------------------------------
\* What the claims speak of, stated without the loops above.

\* the candidate is a field of the page holding neither None nor ""
NonEmpty(a) == a \in AttrNames /\ attrs[a] # NoneV /\ attrs[a] # StrV(<<>>)

\* the candidate is a field of the page holding an image object
HoldsImage(a) == a \in AttrNames /\ attrs[a].kind = "image"

NonEmptyAt(sources) == {i \in 1..Len(sources) : NonEmpty(sources[i])}
ImageAt(sources) == {i \in 1..Len(sources) : HoldsImage(sources[i])}
Least(I) == CHOOSE i \in I : \A j \in I : i <= j
Greatest(I) == CHOOSE i \in I : \A j \in I : j <= i

\* v is the text a, then " - ", then the text b
IsTitleDashSite(v, a, b) ==
    /\ v.kind = "str"
    /\ Len(v.s) = Len(a) + 3 + Len(b)
    /\ SubSeq(v.s, 1, Len(a)) = a
    /\ SubSeq(v.s, Len(a) + 1, Len(a) + 3) = <<" ", "-", " ">>
    /\ SubSeq(v.s, Len(a) + 4, Len(v.s)) = b

\* the number of leading "@" of s
LeadingAts(s) ==
    Greatest({k \in 0..Len(s) : \A i \in 1..k : s[i] = "@"})

\* the strings between the double quotes of a JSON list of plain strings
RECURSIVE QuotedStrings(_, _, _, _, _)
QuotedStrings(cs, i, inside, cur, acc) ==
    IF i > Len(cs) THEN acc
    ELSE IF cs[i] = "\""
         THEN IF inside
              THEN QuotedStrings(cs, i + 1, FALSE, <<>>, Append(acc, cur))
              ELSE QuotedStrings(cs, i + 1, TRUE, <<>>, acc)
         ELSE IF inside
              THEN QuotedStrings(cs, i + 1, TRUE, Append(cur, cs[i]), acc)
              ELSE QuotedStrings(cs, i + 1, FALSE, cur, acc)
JsonLoadsList(cs) == QuotedStrings(cs, 1, FALSE, <<>>, <<>>)

\* the characters of a JSON list outside its strings
RECURSIVE Punctuation(_, _, _)
Punctuation(cs, i, inside) ==
    IF i > Len(cs) THEN <<>>
    ELSE IF cs[i] = "\"" THEN Punctuation(cs, i + 1, ~inside)
         ELSE IF inside THEN Punctuation(cs, i + 1, inside)
              ELSE <<cs[i]>> \o Punctuation(cs, i + 1, inside)

SelectedDays == [i \in 1..Len(hours.days) |-> DayChars(hours.days[i])]

\* text is the JSON list of exactly the selected days, in their order
IsDaysList(text) ==
    /\ JsonLoadsList(text) = SelectedDays
    /\ \A i \in 1..Len(JsonLoadsList(text)) :
           \E d \in Days : JsonLoadsList(text)[i] = DayChars(d)
    /\ Len(Punctuation(text, 1, FALSE)) = 2 + 2 * (IF Len(hours.days) = 0 THEN 0
                                                   ELSE Len(hours.days) - 1)
    /\ Head(text) = "[" /\ text[Len(text)] = "]"

ExtraKeysOf(members) == {members[i].key : i \in 1..Len(members)}
LastValueOf(members, k) ==
    members[Greatest({i \in 1..Len(members) : members[i].key = k})].value

----------------------------------------------------------------------------
\* C1: when some title (description) candidate is a field of the page with a
\* non-empty value, seo_pagetitle (seo_description) is the value of the first
\* such candidate in list order; an absent or empty candidate is skipped
\* without an exception and is never the value returned.
C1_FirstNonEmptyCandidate ==
    /\ (result.op = "seo_pagetitle" /\ NonEmptyAt(seo_pagetitle_sources) # {})
         => /\ result.val
                 = attrs[seo_pagetitle_sources[Least(NonEmptyAt(seo_pagetitle_sources))]]
            /\ result.val.kind \notin {"raise", "none"}
            /\ result.val # StrV(<<>>)
    /\ (result.op = "seo_description" /\ NonEmptyAt(seo_description_sources) # {})
         => /\ result.val
                 = attrs[seo_description_sources[Least(NonEmptyAt(seo_description_sources))]]
            /\ result.val.kind \notin {"raise", "none"}
            /\ result.val # StrV(<<>>)

\* seo_pagetitle read two non-empty candidates that differ and gave the
\* earlier of them
C1_Witness ==
    /\ result.op = "seo_pagetitle"
    /\ seo_pagetitle_sources = <<"search_description", "seo_title">>
    /\ attrs["search_description"] = StrV(<<"D">>)
    /\ attrs["seo_title"] = StrV(<<"S">>)
    /\ result.val = StrV(<<"D">>)

\* C2 as stated: seo_pagetitle is title, " - ", site name exactly when no
\* title candidate is a field of the page with a non-empty value.
C2_FallbackExactlyWhenNoCandidate ==
    result.op = "seo_pagetitle"
        => (IsTitleDashSite(result.val, title, site_name)
              <=> NonEmptyAt(seo_pagetitle_sources) = {})

\* C2 as amended: with no non-empty title candidate (an empty list included)
\* seo_pagetitle is title, " - ", site name; that string is returned otherwise
\* only when the first non-empty candidate itself holds it.
C2_FallbackWhenNoCandidate ==
    result.op = "seo_pagetitle"
        => /\ NonEmptyAt(seo_pagetitle_sources) = {}
                => IsTitleDashSite(result.val, title, site_name)
           /\ (IsTitleDashSite(result.val, title, site_name)
                 /\ NonEmptyAt(seo_pagetitle_sources) # {})
                => attrs[seo_pagetitle_sources[Least(NonEmptyAt(seo_pagetitle_sources))]]
                     = result.val

\* seo_pagetitle fell back after two candidates, one absent and one empty
C2_Witness ==
    /\ result.op = "seo_pagetitle"
    /\ seo_pagetitle_sources = <<"missing", "seo_title">>
    /\ attrs["seo_title"] = StrV(<<>>)
    /\ title = <<"U">>
    /\ site_name = <<"N">>
    /\ result.val = StrV(<<"U", " ", "-", " ", "N">>)

\* C3: a handle stored with or without one leading "@" is exposed as "@"
\* followed by the handle without that "@".
C3_HandleWithOrWithoutAt ==
    LET bare == IF twitter_site # <<>> /\ twitter_site[1] = "@"
                THEN SubSeq(twitter_site, 2, Len(twitter_site))
                ELSE twitter_site
    IN  (result.op = "at_twitter_site" /\ (bare = <<>> \/ bare[1] # "@"))
            => result.val = StrV(<<"@">> \o bare)

\* "@ff" was stored and "@ff" is exposed
C3_Witness ==
    /\ result.op = "at_twitter_site"
    /\ twitter_site = <<"@", "f", "f">>
    /\ result.val = StrV(<<"@", "f", "f">>)

\* C4: seo_description is "" when no description candidate is a field of the
\* page with a non-empty value, seo_image_url is "" when no image candidate
\* holds an image object, and neither raises.
C4_MissingSourcesGiveEmptyString ==
    /\ (result.op = "seo_description" /\ NonEmptyAt(seo_description_sources) = {})
         => result.val = StrV(<<>>)
    /\ (result.op = "seo_image_url" /\ ImageAt(seo_image_sources) = {})
         => result.val = StrV(<<>>)
    /\ result.op \in {"seo_description", "seo_image_url"}
         => result.val.kind # "raise"

\* seo_image_url read a text field and an unset image field and gave ""
C4_Witness ==
    /\ result.op = "seo_image_url"
    /\ seo_image_sources = <<"seo_title", "og_image">>
    /\ attrs["seo_title"] = StrV(<<"S">>)
    /\ attrs["og_image"] = NoneV
    /\ result.val = StrV(<<>>)

C6_ExtraJsonMergedLast ==
    (struct_data.op = "struct" /\ struct_org_extra_json.ok)
        => \A k \in Keys :
               IF k \in ExtraKeysOf(struct_org_extra_json.members)
               THEN struct_data.map[k]
                        = LastValueOf(struct_org_extra_json.members, k)
               ELSE struct_data.map[k] = BaseMapping[k]

\* the organization has a name and the extra JSON names another: the extra
\* one is in the mapping, beside "foo"
C6_Witness ==
    /\ struct_data.op = "struct"
    /\ struct_org_name = <<"O">>
    /\ struct_org_extra_json
         = [ok |-> TRUE,
            members |-> <<[key |-> "foo", value |-> <<"bar">>],
                          [key |-> "name", value |-> <<"baz">>]>>]
    /\ struct_data.map["foo"] = <<"bar">>
    /\ struct_data.map["name"] = <<"baz">>
    /\ struct_data.map["@type"] = <<struct_org_type>>

\* C7: days_json is the JSON list of exactly the selected days, each one of
\* the seven weekday names, in their stored order, and the assembled entry
\* holds that list with the entry's start and end time.
C7_OpenHoursRepresentation ==
    /\ result.op = "days_json"
         => result.val.kind = "str" /\ IsDaysList(result.val.s)
    /\ hours_data.op = "hours"
         => /\ IsDaysList(hours_data.days)
            /\ hours_data.opens = hours.start_time
            /\ hours_data.closes = hours.end_time

\* Monday and Tuesday, 09:00 to 17:00
C7_Witness ==
    /\ hours_data.op = "hours"
    /\ hours.days = <<"Monday", "Tuesday">>
    /\ hours_data.days
         = <<"[", "\"", "M", "o", "n", "d", "a", "y", "\"", ",", " ",
             "\"", "T", "u", "e", "s", "d", "a", "y", "\"", "]">>
    /\ hours_data.opens = "09:00"
    /\ hours_data.closes = "17:00"

\* C8: when some image candidate holds an image object, seo_image_url is the
\* media base URL followed by the URL of the "original" rendition of the
\* first such candidate in list order.
C8_FirstImageCandidate ==
    (result.op = "seo_image_url" /\ ImageAt(seo_image_sources) # {})
        => LET image == attrs[seo_image_sources[Least(ImageAt(seo_image_sources))]]
           IN  result.val
                 = StrV(media_base_url \o <<"/">> \o image.s \o <<".", "original">>)

\* two candidates hold different images and the earlier one is used
C8_Witness ==
    /\ result.op = "seo_image_url"
    /\ seo_image_sources = <<"struct_org_image", "og_image">>
    /\ attrs["og_image"] = ImageV(<<"a">>)
    /\ attrs["struct_org_image"] = ImageV(<<"b">>)
    /\ media_base_url = <<"h">>
    /\ result.val = StrV(<<"h", "/", "b", ".", "original">>)

\* C9: a step that reads a property leaves every stored field of the page and
\* of the settings and the candidate lists unchanged, and reading the same
\* property again gives the same value.
C9_ReadsArePure ==
    [][result'.op # "none"
         => /\ UNCHANGED Stored
            /\ result.op = result'.op => result'.val = result.val]_vars

\* at_twitter_site was read on a record whose page and settings were edited
C9_Witness ==
    /\ result.op = "at_twitter_site"
    /\ twitter_site = <<"@", "f">>
    /\ attrs["seo_title"] = StrV(<<"S">>)
    /\ attrs["og_image"] = ImageV(<<"a">>)

\* C10: for every stored handle at_twitter_site is "@" followed by the handle
\* without its leading "@"s: it starts with exactly one "@", a handle that
\* already has that form is exposed unchanged, and a blank handle gives "@".
C10_AtTwitterSiteNormalForm ==
    result.op = "at_twitter_site"
        => /\ result.val
                = StrV(<<"@">> \o SubSeq(twitter_site, LeadingAts(twitter_site) + 1,
                                         Len(twitter_site)))
           /\ result.val.s[1] = "@"
           /\ Len(result.val.s) >= 2 => result.val.s[2] # "@"
           /\ LeadingAts(twitter_site) = 1 => result.val.s = twitter_site
           /\ twitter_site = <<>> => result.val.s = <<"@">>

\* "@@f" was stored and "@f" is exposed
C10_Witness ==
    /\ result.op = "at_twitter_site"
    /\ twitter_site = <<"@", "@", "f">>
    /\ result.val = StrV(<<"@", "f">>)

====
